---------------------------- MODULE Spec2Model ----------------------------
(***************************************************************************)
(* simpply: the store-composition and dispatch engine.                     *)
(*                                                                         *)
(* Two variants of the library live in the repository: src/index.js        *)
(* (combineStorageEntities) and src/unnamed/part_000 (createSystemStorage).*)
(* They share the module-level ownership index effectsToStorageEntityMap,  *)
(* the module-level reducerFn and the reducer's code; they differ in the   *)
(* presence test of initialState and in the development-mode dispatch      *)
(* wrapper.  The variable `variant` says which file is loaded.             *)
(*                                                                         *)
(* JavaScript values are records [cls, val, str]: cls is the class that    *)
(* Object.prototype.toString reports, val the number (or the boolean as    *)
(* 0/1), str the characters of a string.                                   *)
(***************************************************************************)
EXTENDS Integers, Sequences, FiniteSets, TLC

VARIABLES
  variant,                    \* which source file is loaded
  env,                        \* process.env.NODE_ENV
  effectsToStorageEntityMap,  \* the module-level Map: effect name -> entity name
  registries,                 \* the values createSystemStorage has returned, in order
  reducerFn,                  \* 0 (null) or the registry the reducer closed over
  stores,                     \* the mounted providers: registry, options, state
  calls,                      \* how many builds, dispatches and outside renders were made
  last,                       \* what the last call was given and how it ended
  hist,                       \* per store, the dispatches issued on it
  built,                      \* per registry, the entity map it was built from
  heap                        \* the state objects made so far, and who refers to which

vars == <<variant, env, effectsToStorageEntityMap, registries, reducerFn,
          stores, calls, last, hist, built, heap>>

---------------------------------------------------------------------------
(* Bounds of the model. *)
MaxCalls == 5

---------------------------------------------------------------------------
(* JavaScript values. *)
Val(c, n, s) == [cls |-> c, val |-> n, str |-> s]

Undefined == Val("Undefined", 0, "")
Null == Val("Null", 0, "")
Num(n) == Val("Number", n, "")
Str(s) == Val("String", 0, s)
False == Val("Boolean", 0, "")
True == Val("Boolean", 1, "")
EmptyArr == Val("Array", 0, "")
EmptyObj == Val("Object", 0, "")
AFunction == Val("Function", 0, "")
ADate == Val("Date", 0, "")
ARegExp == Val("RegExp", 0, "")
ASymbol == Val("Symbol", 0, "")

(* String.prototype.toLowerCase on the class names toString can report. *)
toLowerCase(c) ==
  CASE c = "Object" -> "object"
    [] c = "Array" -> "array"
    [] c = "Function" -> "function"
    [] c = "Date" -> "date"
    [] c = "RegExp" -> "regexp"
    [] c = "Symbol" -> "symbol"
    [] c = "Number" -> "number"
    [] c = "String" -> "string"
    [] c = "Boolean" -> "boolean"
    [] c = "Null" -> "null"
    [] c = "Undefined" -> "undefined"

(* getVariableType: "[object Xxx]" without its brackets, second word, lowercased. *)
getVariableType(v) == toLowerCase(v.cls)

(* The operand of `!`: ToBoolean is false for undefined, null, 0, '' and false. *)
Falsy(v) ==
  \/ v.cls \in {"Undefined", "Null"}
  \/ v.cls = "Number" /\ v.val = 0
  \/ v.cls = "String" /\ v.str = ""
  \/ v.cls = "Boolean" /\ v.val = 0

(* The kinds both validations refuse for a state or a payload. *)
ForbiddenKind(v) ==
  \/ getVariableType(v) = "function"
  \/ getVariableType(v) = "date"
  \/ getVariableType(v) = "regexp"
  \/ getVariableType(v) = "symbol"

(* A JavaScript object with string keys, as a function; obj[k] of a missing key. *)
NoProps == [k \in {} |-> Undefined]
Keys(o) == DOMAIN o
Put(o, k, v) == [x \in (DOMAIN o) \cup {k} |-> IF x = k THEN v ELSE o[x]]

(* The spread with its operands swapped, `{ ...p, ...o }`: the first value of a key stays. *)
SpreadFirstWins(o, p) ==
  [x \in (DOMAIN o) \cup (DOMAIN p) |-> IF x \in DOMAIN o THEN o[x] ELSE p[x]]

(* { ...o, ...p }: the keys of both, p's value where both have the key. *)
Spread(o, p) == [x \in (DOMAIN o) \cup (DOMAIN p) |-> IF x \in DOMAIN p THEN p[x] ELSE o[x]]

---------------------------------------------------------------------------
(* Effects: what an entity's `effects` object may hold under an effect name. *)
(* SET is (state, payload) => payload, KEEP is (state, payload) => state,   *)
(* NOTFN is a value that is not a function.  OBJECT is the Object            *)
(* constructor, which every object literal inherits as `constructor`.        *)
Callable(h) == h \in {"SET", "KEEP", "OBJECT"}

Apply(h, slice, payload) ==
  CASE h = "SET" -> payload
    [] h = "KEEP" -> slice
    [] h = "OBJECT" -> IF slice.cls \in {"Undefined", "Null"} THEN EmptyObj ELSE slice

(* An `effects` value: an object with its own keys, or something else. *)
Effects(m) == [cls |-> "Object", val |-> 1, str |-> "", map |-> m]
NoEffects == [cls |-> "Undefined", val |-> 0, str |-> "", map |-> NoProps]
ArrayEffects == [cls |-> "Array", val |-> 0, str |-> "", map |-> NoProps]
ZeroEffects == [cls |-> "Number", val |-> 0, str |-> "", map |-> NoProps]

(* A storage entity {effects, initialState}, or a value that is no object. *)
Entity(init, eff) == [cls |-> "Object", val |-> 1, str |-> "", effects |-> eff, initialState |-> init]
NumberEntity == [cls |-> "Number", val |-> 5, str |-> "", effects |-> NoEffects, initialState |-> Undefined]

(* The argument of createSystemStorage: its keys in enumeration order. *)
EntityMap(es) == [cls |-> "Object", ents |-> es]
ArrayMap == [cls |-> "Array", ents |-> <<>>]
Named(n, e) == [name |-> n, ent |-> e]

---------------------------------------------------------------------------
(* createSystemStorage (part_000) / combineStorageEntities (index.js). *)

(* The thrown Error of a throwError site, named by the kind of contract it guards. *)
NoError == "none"

(* `!effects || initialState === undefined` (part_000), `!effects || !initialState` (index.js). *)
MissingProps(v, effects, initialState) ==
  \/ Falsy(effects)
  \/ IF v = "part_000" THEN initialState = Undefined ELSE Falsy(initialState)

(* The checks of one entity, in the order of the code; the first that throws decides. *)
EntityError(v, cur) ==
  IF getVariableType(cur) # "object" THEN "ShapeError"
  ELSE IF MissingProps(v, cur.effects, cur.initialState) THEN "MissingFieldError"
  ELSE IF getVariableType(cur.effects) # "object" THEN "ShapeError"
  ELSE IF ForbiddenKind(cur.initialState) THEN "InvalidStateTypeError"
  ELSE NoError

(* The forEach over the effect names left out: the Map is not written. *)
RecordOwnerOmitted(own, effects, key) == own

(* The Map written only where it has no entry yet: the first owner of a name stays. *)
RecordOwnerFirstWins(own, effects, key) ==
  [x \in (DOMAIN own) \cup Keys(effects.map) |->
     IF x \in DOMAIN own THEN own[x] ELSE key]

(* Object.keys(effects).forEach(effectKey => effectsToStorageEntityMap.set(effectKey, key)) *)
RecordOwner(own, effects, key) ==
  [x \in (DOMAIN own) \cup Keys(effects.map) |->
     IF x \in Keys(effects.map) THEN key ELSE own[x]]

(* The forEach over Object.keys(storageEntitiesObj), from the i-th key on.  A throw  *)
(* leaves the loop at once: what earlier iterations wrote to the module-level Map    *)
(* stays written, and nothing is returned.                                           *)
RECURSIVE ForEachEntity(_, _, _, _, _, _)
ForEachEntity(v, ents, i, globalEffects, globalInitialState, own) ==
  IF i > Len(ents)
  THEN [err |-> NoError, globalEffects |-> globalEffects,
        globalInitialState |-> globalInitialState, own |-> own]
  ELSE LET key == ents[i].name
           currentStorageEntity == ents[i].ent
           e == EntityError(v, currentStorageEntity)
       IN IF e # NoError
          THEN [err |-> e, globalEffects |-> NoProps,
                globalInitialState |-> NoProps, own |-> own]
          ELSE ForEachEntity(v, ents, i + 1,
                 Spread(globalEffects, currentStorageEntity.effects.map),
                 Put(globalInitialState, key, currentStorageEntity.initialState),
                 RecordOwner(own, currentStorageEntity.effects, key))

createSystemStorage(v, storageEntitiesObj, own) ==
  IF storageEntitiesObj.cls # "Object"
  THEN [err |-> "ShapeError", globalEffects |-> NoProps,
        globalInitialState |-> NoProps, own |-> own]
  ELSE ForEachEntity(v, storageEntitiesObj.ents, 1, NoProps, NoProps, own)

---------------------------------------------------------------------------
(* The reducer that createStore installs once, and the dispatch of a store. *)

(* An action {type, payload}, or a value that is no object. *)
Action(t, p) == [cls |-> "Object", val |-> 1, str |-> "", type |-> t, payload |-> p]
NonObjectAction(c) == [cls |-> c, val |-> 0, str |-> "", type |-> Undefined, payload |-> Undefined]

(* What every object literal inherits from Object.prototype, by name.  globalEffects *)
(* is built as an object literal, so globalEffects[type] finds these too.            *)
ObjectPrototype == [k \in {"constructor"} |-> "OBJECT"]

(* systemStorage.globalEffects[type]: an own property, an inherited one, or undefined. *)
GetEffect(globalEffects, type) ==
  IF type \in Keys(globalEffects) THEN globalEffects[type]
  ELSE IF type \in Keys(ObjectPrototype) THEN ObjectPrototype[type]
  ELSE "undefined"

(* effectsToStorageEntityMap.get(type); as a computed property name, undefined *)
(* is the key "undefined".                                                      *)
GetOwner(own, type) == IF type \in Keys(own) THEN own[type] ELSE "undefined"

(* state[key] *)
GetSlice(state, key) == IF key \in Keys(state) THEN state[key] ELSE Undefined

(* The checks with the presence of payload tested as `payload === undefined`. *)
ActionErrorPayloadDefined(action) ==
  IF getVariableType(action) # "object" THEN "ShapeError"
  ELSE IF Falsy(action.type) \/ action.payload = Undefined THEN "MissingFieldError"
  ELSE IF getVariableType(action.type) # "string" THEN "InvalidTypeError"
  ELSE IF ForbiddenKind(action.payload) THEN "InvalidPayloadTypeError"
  ELSE NoError

(* The four throwError checks of the reducer, in the order of the code. *)
ActionError(action) ==
  IF getVariableType(action) # "object" THEN "ShapeError"
  ELSE IF Falsy(action.type) \/ Falsy(action.payload) THEN "MissingFieldError"
  ELSE IF getVariableType(action.type) # "string" THEN "InvalidTypeError"
  ELSE IF ForbiddenKind(action.payload) THEN "InvalidPayloadTypeError"
  ELSE NoError

(* ReplaceSlice with the effect's result thrown away: `fn(...); return state`. *)
ReplaceSliceDiscarded(state, key, fn, payload) == state

(* ReplaceSlice without the spread: `{ [key]: fn(state[key], payload) }`. *)
ReplaceSliceNoSpread(state, key, fn, payload) ==
  Put(NoProps, key, Apply(fn, GetSlice(state, key), payload))

(* { ...state, [key]: fn(state[key], payload) } *)
ReplaceSlice(state, key, fn, payload) ==
  Put(state, key, Apply(fn, GetSlice(state, key), payload))

(* The reducer with its checks after the effect: the new state is built first, and *)
(* handed back even when a check then throws.                                      *)
reducerChecksLate(systemStorage, own, state, action) ==
  LET type == action.type.str
      fn == GetEffect(systemStorage.globalEffects, type)
      key == GetOwner(own, type)
      ran == action.cls = "Object" /\ fn # "undefined" /\ Callable(fn)
      next == IF ran THEN Put(state, key, Apply(fn, GetSlice(state, key), action.payload))
              ELSE state
  IN [err |-> ActionError(action), state |-> next,
      fn |-> IF ran THEN fn ELSE "none", key |-> IF ran THEN key ELSE "none"]

(* The reducer with the effect called before the checks: its result is thrown *)
(* away when a check then fails.                                              *)
reducerEffectFirst(systemStorage, own, state, action) ==
  LET type == action.type.str
      fn == GetEffect(systemStorage.globalEffects, type)
      key == GetOwner(own, type)
      ran == action.cls = "Object" /\ fn # "undefined" /\ Callable(fn)
      e == ActionError(action)
  IN [err |-> e,
      state |-> IF ran /\ e = NoError THEN ReplaceSlice(state, key, fn, action.payload)
                ELSE state,
      fn |-> IF ran THEN fn ELSE "none", key |-> IF ran THEN key ELSE "none"]

(* reducerFn(state, action), closed over `systemStorage`; `own` is the module-level  *)
(* Map as it is when the reducer runs.  fn and key tell which effect ran on which    *)
(* slice ("none" when no effect ran).                                                *)
reducer(systemStorage, own, state, action) ==
  LET e == ActionError(action) IN
  IF e # NoError
  THEN [err |-> e, state |-> state, fn |-> "none", key |-> "none"]
  ELSE LET type == action.type.str
           payload == action.payload
           fn == GetEffect(systemStorage.globalEffects, type)
           key == GetOwner(own, type)
       IN IF fn # "undefined" /\ Callable(fn)
          THEN [err |-> NoError, state |-> ReplaceSlice(state, key, fn, payload),
                fn |-> fn, key |-> key]
          ELSE [err |-> NoError, state |-> state, fn |-> "none", key |-> "none"]

(* The development-mode wrapper reads action.type before it calls _dispatch:      *)
(* index.js always, part_000 when options.logging.  Reading a property of         *)
(* undefined or null is a TypeError.                                              *)
WrapperLogs(v, e, logging) ==
  /\ e = "development"
  /\ (v = "index.js" \/ logging)

WrapperThrows(v, e, logging, action) ==
  /\ WrapperLogs(v, e, logging)
  /\ action.cls \in {"Undefined", "Null"}

(* dispatch(action) of a store: the wrapper, then useReducer's _dispatch, which    *)
(* runs the reducer on the state it is given.  The result has the state to        *)
(* commit: the reducer's on success, the given one when something threw.          *)
dispatch(v, e, logging, systemStorage, own, state, action) ==
  IF WrapperThrows(v, e, logging, action)
  THEN [err |-> "TypeError", state |-> state, fn |-> "none", key |-> "none"]
  ELSE reducer(systemStorage, own, state, action)

---------------------------------------------------------------------------
(* The inputs the operations are called with. *)
Variants == {"index.js", "part_000"}
Envs == {"development", "production"}

Eff1(k, h) == [x \in {k} |-> h]
Eff2(k1, h1, k2, h2) == [x \in {k1, k2} |-> IF x = k1 THEN h1 ELSE h2]

(* { a: {1, {T: SET, N: notfn}}, b: {2, {U: KEEP}} } *)
MapAB ==
  EntityMap(<<Named("a", Entity(Num(1), Effects(Eff2("T", "SET", "N", "NOTFN")))),
              Named("b", Entity(Num(2), Effects(Eff1("U", "KEEP"))))>>)

(* { b: {3, {T: KEEP, U: SET}} }: the effect names of MapAB under another owner. *)
MapB == EntityMap(<<Named("b", Entity(Num(3), Effects(Eff2("T", "KEEP", "U", "SET"))))>>)

(* Two entities that declare the same effect name, in both enumeration orders. *)
MapCollide ==
  EntityMap(<<Named("a", Entity(Num(1), Effects(Eff1("T", "SET")))),
              Named("b", Entity(Num(2), Effects(Eff1("T", "KEEP"))))>>)

MapCollideRev ==
  EntityMap(<<Named("b", Entity(Num(2), Effects(Eff1("T", "KEEP")))),
              Named("a", Entity(Num(1), Effects(Eff1("T", "SET"))))>>)

(* { a: {init, {T: SET}} } for an initialState that is defined but falsy, or absent. *)
FalsyStates == {Num(0), Str(""), False, EmptyArr, EmptyObj}
MapInit(init) == EntityMap(<<Named("a", Entity(init, Effects(Eff1("T", "SET"))))>>)

(* { a: a valid entity declaring U, b: bad }: the malformed entity comes second. *)
MapThenBad(bad) ==
  EntityMap(<<Named("a", Entity(Num(1), Effects(Eff1("U", "SET")))), Named("b", bad)>>)

BadEntities ==
  { NumberEntity,
    Entity(Num(2), NoEffects),
    Entity(Undefined, Effects(Eff1("T", "KEEP"))),
    Entity(Num(2), ArrayEffects),
    Entity(Num(2), ZeroEffects),
    Entity(AFunction, Effects(Eff1("T", "KEEP"))),
    Entity(ADate, Effects(Eff1("T", "KEEP"))),
    Entity(ARegExp, Effects(Eff1("T", "KEEP"))),
    Entity(ASymbol, Effects(Eff1("T", "KEEP"))) }

DispatchMaps == {MapAB, MapB}

BuildMaps ==
  {MapCollide, MapCollideRev, ArrayMap, MapInit(Undefined)}
    \cup {MapInit(v) : v \in FalsyStates}
    \cup {MapThenBad(e) : e \in BadEntities}

(* Actions: well-formed ones for a registered, an unregistered and an inherited *)
(* name, and one or more for every way validation can fail.                      *)
GoodActions ==
  { Action(Str("T"), Num(1)), Action(Str("T"), Num(2)), Action(Str("U"), Num(1)),
    Action(Str("N"), Num(1)), Action(Str("X"), Num(1)),
    Action(Str("constructor"), Num(1)) }

FalsyPayloads == {Num(0), Str(""), False, Undefined}

BadActions ==
  {Action(Str("T"), p) : p \in FalsyPayloads}
    \cup {Action(Str(""), Num(1)), Action(Undefined, Num(1)), Action(Num(7), Num(1))}
    \cup {Action(Str("T"), p) : p \in {AFunction, ADate, ARegExp, ASymbol}}
    \cup {NonObjectAction("Undefined"), NonObjectAction("Array")}

DispatchActions == GoodActions \cup BadActions

BuildActions == {Action(Str("T"), Num(5)), Action(Str("U"), Num(5))}

FoldActions ==
  { Action(Str("T"), Num(1)), Action(Str("T"), Num(2)), Action(Str("U"), Num(1)),
    Action(Str("T"), Num(0)) }

---------------------------------------------------------------------------
(* The state after the module is loaded. *)
Init ==
  /\ variant \in Variants
  /\ env \in Envs
  /\ effectsToStorageEntityMap = NoProps
  /\ registries = <<>>
  /\ reducerFn = 0
  /\ stores = <<>>
  /\ calls = [build |-> 0, dispatch |-> 0, render |-> 0]
  /\ last = [op |-> "init"]
  /\ hist = <<>>
  /\ built = <<>>
  /\ heap = [objs |-> <<>>, init |-> <<>>, ref |-> <<>>]

(* Object identity.  heap.objs[i] is what the i-th state object holds now,       *)
(* heap.init[r] the object that is registry r's globalInitialState, heap.ref[s]  *)
(* the object that is store s's current state.                                   *)

(* `const globalInitialState = {}` of a build that returns: one new object. *)
AllocateInitialState(h, globalInitialState) ==
  [h EXCEPT !.objs = Append(@, globalInitialState),
            !.init = Append(@, Len(h.objs) + 1)]

(* useReducer(reducerFn, systemStorage.globalInitialState): the first state of a *)
(* store is the registry's object itself, not a copy.                            *)
InitialRef(h, r) == [h EXCEPT !.ref = Append(@, h.init[r])]

(* The reducer's result written into the object it was given: `state[key] = ...; *)
(* return state`.                                                                *)
CommitInPlace(h, s, state, ran) ==
  IF ran THEN [h EXCEPT !.objs[h.ref[s]] = state] ELSE h

(* What the reducer returns becomes the store's state: the object literal        *)
(* `{ ...state, [key]: ... }` is a new object when an effect ran, and `state`,   *)
(* the object it was given, otherwise.                                           *)
CommitObject(h, s, state, ran) ==
  IF ran
  THEN [h EXCEPT !.objs = Append(@, state), !.ref[s] = Len(h.objs) + 1]
  ELSE h

(* The calls made so far: every build, every provider mounted, every dispatch, *)
(* every render asked from outside.                                            *)
Calls == calls.build + Len(stores) + calls.dispatch + calls.render

(* createSystemStorage(m): what it returns is kept; what it wrote to the Map stays. *)
Build(m) ==
  /\ Calls < MaxCalls
  /\ LET r == createSystemStorage(variant, m, effectsToStorageEntityMap) IN
     /\ effectsToStorageEntityMap' = r.own
     /\ registries' =
          IF r.err = NoError
          THEN Append(registries, [globalEffects |-> r.globalEffects,
                                   globalInitialState |-> r.globalInitialState])
          ELSE registries
     /\ built' = IF r.err = NoError THEN Append(built, m) ELSE built
     /\ heap' = IF r.err = NoError THEN AllocateInitialState(heap, r.globalInitialState)
                ELSE heap
     /\ last' = [op |-> "build", arg |-> m, err |-> r.err,
                 own |-> effectsToStorageEntityMap,
                 reg |-> IF r.err = NoError THEN Len(registries) + 1 ELSE 0]
  /\ calls' = [calls EXCEPT !.build = @ + 1]
  /\ UNCHANGED <<variant, env, reducerFn, stores, hist>>

(* `if (!reducerFn) reducerFn = ...`: only the first createStore of the process *)
(* makes the reducer, closed over that call's systemStorage.                    *)
InstallReducer(current, systemStorage) ==
  IF current = 0 THEN systemStorage ELSE current

(* The function a store hands out as `dispatch`: none before the first render,   *)
(* useReducer's _dispatch (one function for the life of the component), or the   *)
(* made-th arrow function that createStore has made around it for the store.     *)
NullDispatch == [fn |-> "null", made |-> 0]
ReducerDispatch == [fn |-> "_dispatch", made |-> 0]
Wrapper(n) == [fn |-> "wrapper", made |-> n]

(* useMemo(() => action => {...}, [_dispatch]): _dispatch never changes, so the *)
(* arrow function of the first render is kept.                                  *)
useMemo(prev) == IF prev.fn = "wrapper" THEN prev ELSE Wrapper(1)

(* The `dispatch` one evaluation of createStore returns, `prev` being what the   *)
(* evaluation before returned for the same store: in development index.js makes *)
(* a new arrow function every time and part_000 memoizes it; otherwise it is     *)
(* _dispatch itself.                                                             *)
createStoreDispatch(v, e, prev) ==
  IF e = "development"
  THEN IF v = "index.js" THEN Wrapper(prev.made + 1) ELSE useMemo(prev)
  ELSE ReducerDispatch

(* The first render of a provider made by createProvider(registries[r], options): *)
(* createStore installs the reducer and useReducer starts from globalInitialState. *)
CreateStore(r, logging) ==
  /\ Calls < MaxCalls
  /\ r \in 1..Len(registries)
  /\ reducerFn' = InstallReducer(reducerFn, r)
  /\ stores' = Append(stores, [reg |-> r, logging |-> logging,
                               state |-> registries[r].globalInitialState,
                               dispatch |-> createStoreDispatch(variant, env, NullDispatch)])
  /\ hist' = Append(hist, <<>>)
  /\ heap' = InitialRef(heap, r)
  /\ last' = [op |-> "createStore", store |-> Len(stores) + 1]
  /\ UNCHANGED <<variant, env, effectsToStorageEntityMap, registries, calls, built>>

(* A reducer call that sees the state of the first render, not the last commit. *)
useReducerStale(sts, s) == registries[sts[s].reg].globalInitialState

(* useReducer hands the reducer the state it committed last, and commits what *)
(* the reducer returns as the store's state.                                   *)
useReducerState(sts, s) == sts[s].state

Commit(sts, s, state) == [sts EXCEPT ![s].state = state]

(* The provider of store s is rendered again: createStore is evaluated again for it. *)
Render(sts, s) ==
  [sts EXCEPT ![s].dispatch = createStoreDispatch(variant, env, @)]

(* dispatch(a) on store s, to completion.  When the reducer returned a new object *)
(* (an effect ran), React renders the provider again; when it returned the state  *)
(* it was given, React bails out.                                                 *)
DispatchOn(s, a) ==
  /\ Calls < MaxCalls
  /\ s \in 1..Len(stores)
  /\ LET r == dispatch(variant, env, stores[s].logging, registries[reducerFn],
                       effectsToStorageEntityMap, useReducerState(stores, s), a) IN
     /\ stores' = IF r.fn # "none" THEN Render(Commit(stores, s, r.state), s)
                  ELSE Commit(stores, s, r.state)
     /\ heap' = CommitObject(heap, s, r.state, r.fn # "none")
     /\ last' = [op |-> "dispatch", store |-> s, action |-> a, err |-> r.err,
                 prev |-> stores[s].state, fn |-> r.fn, key |-> r.key]
  /\ calls' = [calls EXCEPT !.dispatch = @ + 1]
  /\ UNCHANGED <<variant, env, effectsToStorageEntityMap, registries, reducerFn, built>>

Dispatch(s, a) == DispatchOn(s, a) /\ UNCHANGED hist

(* The same dispatch, noted per store: the action, the Map it ran against, the *)
(* error it ended with and whether the store's state is what it was.           *)
DispatchNoted(s, a) ==
  /\ DispatchOn(s, a)
  /\ hist' = [hist EXCEPT ![s] = Append(@, [action |-> a, own |-> effectsToStorageEntityMap,
                                            err |-> last'.err,
                                            same |-> stores'[s].state = stores[s].state])]

Loggings == IF variant = "index.js" THEN {TRUE} ELSE BOOLEAN

Next ==
  \/ \E m \in DispatchMaps : Build(m)
  \/ \E r \in 1..Len(registries), l \in Loggings : CreateStore(r, l)
  \/ \E s \in 1..Len(stores), a \in DispatchActions : Dispatch(s, a)

Spec == Init /\ [][Next]_vars

NextBuild ==
  \/ \E m \in BuildMaps : Build(m)
  \/ \E r \in 1..Len(registries) : CreateStore(r, TRUE)
  \/ \E s \in 1..Len(stores), a \in BuildActions : Dispatch(s, a)

(* createSystemStorage does not read NODE_ENV: one environment is enough here. *)
InitBuild == Init /\ env = "production"

SpecBuild == InitBuild /\ [][NextBuild]_vars

NextFold ==
  \/ \E m \in DispatchMaps : Build(m)
  \/ \E r \in 1..Len(registries), l \in Loggings : CreateStore(r, l)
  \/ \E s \in 1..Len(stores), a \in FoldActions : DispatchNoted(s, a)

SpecFold == Init /\ [][NextFold]_vars

---------------------------------------------------------------------------
(* What the claims speak about. *)

(* The last call was a dispatch of a well-formed action {type, payload}. *)
DispatchedValid == last.op = "dispatch" /\ ActionError(last.action) = NoError

(* The registry the reducer resolves against, the type and payload just dispatched, *)
(* the state of the store it was dispatched on.                                      *)
ResolverEffects == registries[reducerFn].globalEffects
LastType == last.action.type.str
LastPayload == last.action.payload
LastState == stores[last.store].state

(* The type just dispatched is registered with a callable effect and has an owner. *)
DispatchedRegistered ==
  /\ DispatchedValid
  /\ LastType \in Keys(ResolverEffects)
  /\ Callable(ResolverEffects[LastType])
  /\ LastType \in Keys(effectsToStorageEntityMap)

LastOwner == effectsToStorageEntityMap[LastType]

(* C1: after the dispatch of a valid action whose type is registered with a        *)
(* callable effect and owned by entity e, the committed state's slice e is that    *)
(* effect applied to the slice e of the state committed before and to the payload. *)
(* "Registered" and "owned" are read as the resolver reads them: an own key of the *)
(* globalEffects it was given, the Map's entry when it runs.                       *)
C1_SliceIsHandlerResult ==
  DispatchedRegistered =>
    /\ last.err = NoError
    /\ LastOwner \in Keys(LastState)
    /\ LastState[LastOwner] =
         Apply(ResolverEffects[LastType], GetSlice(last.prev, LastOwner), LastPayload)

(* C1's case: a registered SET effect has just replaced its owner's slice. *)
C1_Witness ==
  /\ DispatchedRegistered
  /\ ResolverEffects[LastType] = "SET"
  /\ LastOwner \in Keys(last.prev)
  /\ LastState[LastOwner] # last.prev[LastOwner]

(* C2: the dispatch of a registered action owned by entity e leaves every other *)
(* key of the state as it was: same keys, same slices.                           *)
C2_SiblingsUnchanged ==
  DispatchedRegistered =>
    /\ Keys(LastState) \ {LastOwner} = Keys(last.prev) \ {LastOwner}
    /\ \A k \in Keys(last.prev) \ {LastOwner} : LastState[k] = last.prev[k]

(* C2's case: the owner's slice changed in a state that has another entity. *)
C2_Witness ==
  /\ DispatchedRegistered
  /\ LastOwner \in Keys(last.prev)
  /\ LastState[LastOwner] # last.prev[LastOwner]
  /\ Keys(last.prev) \ {LastOwner} # {}

(* C3: the dispatch of a valid action whose type has no registered effect, or   *)
(* whose registered value is not callable, raises no error and commits exactly   *)
(* the state that was there before.                                              *)
C3_UnregisteredIsNoOp ==
  (/\ DispatchedValid
   /\ \/ LastType \notin Keys(ResolverEffects)
      \/ ~Callable(ResolverEffects[LastType]))
    => /\ last.err = NoError
       /\ LastState = last.prev

(* C4: the state of every store has exactly the keys of the globalInitialState *)
(* of the registry the store was created from.                                 *)
C4_KeySetFixed ==
  \A s \in 1..Len(stores) :
    Keys(stores[s].state) = Keys(registries[stores[s].reg].globalInitialState)

(* The dispatches noted for one store, applied in order from `state`: each one *)
(* against the result of the one before, a failed one leaving it as it was.    *)
RECURSIVE FoldDispatches(_, _, _)
FoldDispatches(state, noted, logging) ==
  IF noted = <<>> THEN state
  ELSE LET before == FoldDispatches(state, SubSeq(noted, 1, Len(noted) - 1), logging)
           d == noted[Len(noted)]
       IN dispatch(variant, env, logging, registries[reducerFn], d.own,
                   before, d.action).state

InitialStateOf(s) == registries[stores[s].reg].globalInitialState

(* C5: the state of a store is the left fold of the resolver over the dispatches *)
(* issued on it, in the order they were issued, from its registry's              *)
(* globalInitialState.                                                           *)
C5_StateIsFoldOfDispatches ==
  \A s \in 1..Len(stores) :
    stores[s].state = FoldDispatches(InitialStateOf(s), hist[s], stores[s].logging)

(* C5's case: two dispatches on one store whose order matters. *)
C5_Witness ==
  \E s \in 1..Len(stores) :
    /\ Len(hist[s]) = 2
    /\ stores[s].state # InitialStateOf(s)
    /\ FoldDispatches(InitialStateOf(s), <<hist[s][2], hist[s][1]>>, stores[s].logging)
         # stores[s].state

(* C6: a dispatch that raises an error commits nothing and changes nothing else: *)
(* the stores, the registries, the Map and the reducer are as before the call,   *)
(* so what follows runs as if the dispatch had not been issued.                  *)
C6_FailedDispatchChangesNothing ==
  [][(last'.op = "dispatch" /\ last'.err # NoError)
       => /\ stores' = stores
          /\ registries' = registries
          /\ effectsToStorageEntityMap' = effectsToStorageEntityMap
          /\ reducerFn' = reducerFn
          /\ last'.fn = "none"]_vars

(* C6's case: a dispatch on a store that an earlier dispatch had changed has *)
(* failed validation.                                                         *)
C6_Witness ==
  /\ last.op = "dispatch"
  /\ last.err \in {"ShapeError", "MissingFieldError", "InvalidTypeError",
                   "InvalidPayloadTypeError"}
  /\ last.prev # InitialStateOf(last.store)
  /\ LastState = last.prev

(* The values JavaScript's `!` takes for absent or falsy. *)
FalsyValues == {Undefined, Null, Num(0), Str(""), False}

(* C7: the dispatch of an object action whose type or payload is absent or falsy *)
(* raises MissingFieldError, runs no effect and commits nothing, whether or not  *)
(* an effect is registered for the type.                                         *)
C7_FalsyFieldIsMissingField ==
  (/\ last.op = "dispatch"
   /\ last.action.cls = "Object"
   /\ (last.action.type \in FalsyValues \/ last.action.payload \in FalsyValues))
    => /\ last.err = "MissingFieldError"
       /\ last.fn = "none"
       /\ LastState = last.prev

(* C7's case: payload 0 for a type that has a callable effect registered. *)
C7_Witness ==
  /\ last.op = "dispatch"
  /\ last.action = Action(Str("T"), Num(0))
  /\ "T" \in Keys(ResolverEffects)
  /\ Callable(ResolverEffects["T"])
  /\ last.err = "MissingFieldError"

(* C8: createSystemStorage accepts an entity whose initialState is defined but  *)
(* falsy, and the returned globalInitialState holds that value under the         *)
(* entity's name; an undefined initialState is refused as missing.               *)
C8_FalsyInitialStateAccepted ==
  /\ \A v \in FalsyStates :
       (last.op = "build" /\ last.arg = MapInit(v))
         => /\ last.err = NoError
            /\ registries[last.reg].globalInitialState = [k \in {"a"} |-> v]
  /\ (last.op = "build" /\ last.arg = MapInit(Undefined))
       => last.err = "MissingFieldError"

(* The statement of C8 for src/unnamed/part_000 alone, whose presence test is *)
(* `initialState === undefined`.                                               *)
FalsyInitialStateAccepted_part_000 ==
  variant = "part_000" => C8_FalsyInitialStateAccepted

(* The entities of an entity map that declare effect name t, by position. *)
Declaring(m, t) ==
  {i \in 1..Len(m.ents) : t \in Keys(m.ents[i].ent.effects.map)}

LastDeclaring(m, t) ==
  CHOOSE i \in Declaring(m, t) : \A j \in Declaring(m, t) : j <= i

EffectNames(m) == UNION {Keys(m.ents[i].ent.effects.map) : i \in 1..Len(m.ents)}

Colliding(m) == {t \in EffectNames(m) : Cardinality(Declaring(m, t)) > 1}

C10_FailedBuildRegistersNothing ==
  (last.op = "build" /\ last.err # NoError)
    => /\ last.reg = 0
       /\ effectsToStorageEntityMap = last.own

(* What the resolver of store s yields for state st and action a when the reducer *)
(* is fn, the registries are regs and the Map is own.                             *)
ResolveWith(fn, regs, own, s, st, a) ==
  dispatch(variant, env, stores[s].logging, regs[fn], own, st, a).state

(* C11: the resolver is deterministic.  For every store, its state and every      *)
(* well-formed action, the next state the resolver yields is the same before and  *)
(* after any other operation (a build, a dispatch, another store's creation).     *)
C11_ResolverDeterministic ==
  [][\A s \in 1..Len(stores) : \A a \in GoodActions :
       ResolveWith(reducerFn', registries', effectsToStorageEntityMap', s, stores[s].state, a)
         = ResolveWith(reducerFn, registries, effectsToStorageEntityMap, s, stores[s].state, a)]_vars

(* The statement of C11 for the steps that are no build. *)
ResolverDeterministic_noBuild ==
  [][last'.op # "build" =>
       \A s \in 1..Len(stores) : \A a \in GoodActions :
         ResolveWith(reducerFn', registries', effectsToStorageEntityMap', s, stores[s].state, a)
           = ResolveWith(reducerFn, registries, effectsToStorageEntityMap, s, stores[s].state, a)]_vars

(* The entity maps the contract calls valid: a plain mapping of plain mappings, *)
(* each with effects a plain mapping and an initialState that is defined and    *)
(* not a function, date, pattern or symbol.                                     *)
ValidEntity(e) ==
  /\ e.cls = "Object"
  /\ e.effects.cls = "Object"
  /\ e.initialState # Undefined
  /\ e.initialState.cls \notin {"Function", "Date", "RegExp", "Symbol"}

ValidEntityMap(m) ==
  /\ m.cls = "Object"
  /\ \A i \in 1..Len(m.ents) : ValidEntity(m.ents[i].ent)

EntityNames(m) == {m.ents[i].name : i \in 1..Len(m.ents)}
EntitySet(m) == {m.ents[i] : i \in 1..Len(m.ents)}

(* C12: the build of a valid entity map returns a globalInitialState whose keys   *)
(* are exactly the entity names and whose value at each name is that entity's     *)
(* initialState; two builds of the same entities in different orders return the   *)
(* same globalInitialState.                                                       *)
C12_GlobalInitialStateIsEntities ==
  /\ (last.op = "build" /\ ValidEntityMap(last.arg))
       => /\ last.err = NoError
          /\ Keys(registries[last.reg].globalInitialState) = EntityNames(last.arg)
          /\ \A i \in 1..Len(last.arg.ents) :
               registries[last.reg].globalInitialState[last.arg.ents[i].name]
                 = last.arg.ents[i].ent.initialState
  /\ \A i, j \in 1..Len(registries) :
       EntitySet(built[i]) = EntitySet(built[j])
         => registries[i].globalInitialState = registries[j].globalInitialState

(* The statement of C12 for src/unnamed/part_000 alone. *)
GlobalInitialStateIsEntities_part_000 ==
  variant = "part_000" => C12_GlobalInitialStateIsEntities

(* Two registries built from the same entities in different orders. *)
BuiltInBothOrders ==
  \E i, j \in 1..Len(registries) :
    /\ built[i] # built[j]
    /\ EntitySet(built[i]) = EntitySet(built[j])

---------------------------------------------------------------------------
(* The store as its consumers see it: renders and what connect hands out. *)

(* The provider of store s is rendered again because its parent was. *)
Rerender(s) ==
  /\ Calls < MaxCalls
  /\ s \in 1..Len(stores)
  /\ stores' = Render(stores, s)
  /\ last' = [op |-> "render", store |-> s]
  /\ calls' = [calls EXCEPT !.render = @ + 1]
  /\ UNCHANGED <<variant, env, effectsToStorageEntityMap, registries, reducerFn, hist,
                 built, heap>>

ViewMaps == {MapAB}

ViewActions ==
  {Action(Str("T"), Num(1)), Action(Str("T"), Num(2)), Action(Str("X"), Num(1))}

(* C13: the dispatch function a store hands out is the same function before and *)
(* after every step: a dispatch on it, a re-evaluation of createStore for it,    *)
(* anything that happens to another store; with logging on as well as off.       *)
C13_DispatchIsStable ==
  [][\A s \in 1..Len(stores) : stores'[s].dispatch = stores[s].dispatch]_vars

(* The statement of C13 for src/unnamed/part_000 alone, and for production. *)
DispatchIsStable_part_000 ==
  [][variant = "part_000"
       => \A s \in 1..Len(stores) : stores'[s].dispatch = stores[s].dispatch]_vars

DispatchIsStable_production ==
  [][env = "production"
       => \A s \in 1..Len(stores) : stores'[s].dispatch = stores[s].dispatch]_vars

(* mapStateToProps: a function, told by what it returns, or a value that is no *)
(* function.  STATE is s => s, SLICE is s => ({a: s.a}), ARRAY is s => [s.a],  *)
(* NOTHING is s => {} (a body that returns nothing).                           *)
Selector(c, r) == [cls |-> c, val |-> 0, str |-> "", returns |-> r]

FunctionSelectors == {Selector("Function", r) : r \in {"STATE", "SLICE", "ARRAY", "NOTHING"}}
OtherSelectors == {Selector(c, "none") : c \in {"Undefined", "Number", "String", "Object"}}
Selectors == FunctionSelectors \cup {Selector("Null", "none")} \cup OtherSelectors

(* mapStateToProps(state): an object with its properties, or a value of another kind. *)
Sliced(c, p) == [cls |-> c, props |-> p]

CallSelector(mapStateToProps, state) ==
  CASE mapStateToProps.returns = "STATE" -> Sliced("Object", state)
    [] mapStateToProps.returns = "SLICE" -> Sliced("Object", [k \in {"a"} |-> GetSlice(state, k)])
    [] mapStateToProps.returns = "ARRAY" -> Sliced("Array", NoProps)
    [] mapStateToProps.returns = "NOTHING" -> Sliced("Undefined", NoProps)

(* What a render of the component made by connect ends with: an error, or the     *)
(* props given to the wrapped component (slicedState spread, then dispatch).      *)
Rendered(e, called, slicedState, dispatchFn) ==
  [err |-> e, called |-> called, slicedState |-> slicedState, dispatch |-> dispatchFn]

Thrown(e, called) == Rendered(e, called, NoProps, NullDispatch)

(* EnhancedComponent of connect(mapStateToProps), rendered under the provider     *)
(* whose context value is ctx = {state, dispatch}.  part_000 checks the kind of   *)
(* mapStateToProps and skips the call for null; index.js calls it as it is, and   *)
(* calling what is no function is a TypeError.                                    *)
connect(v, mapStateToProps, ctx) ==
  IF v = "part_000"
  THEN IF getVariableType(mapStateToProps) # "function" /\ getVariableType(mapStateToProps) # "null"
       THEN Thrown("ConfigurationError", FALSE)
       ELSE IF mapStateToProps # Selector("Null", "none")
       THEN LET slicedState == CallSelector(mapStateToProps, ctx.state) IN
            IF getVariableType(slicedState) # "object" THEN Thrown("ShapeError", TRUE)
            ELSE Rendered(NoError, TRUE, slicedState.props, ctx.dispatch)
       ELSE Rendered(NoError, FALSE, NoProps, ctx.dispatch)
  ELSE IF mapStateToProps.cls # "Function"
       THEN Thrown("TypeError", FALSE)
       ELSE LET slicedState == CallSelector(mapStateToProps, ctx.state) IN
            IF getVariableType(slicedState) # "object" THEN Thrown("ShapeError", TRUE)
            ELSE Rendered(NoError, TRUE, slicedState.props, ctx.dispatch)

(* useContext(Ctx) under the provider of store s. *)
useContext(s) == [state |-> stores[s].state, dispatch |-> stores[s].dispatch]

(* A component made by connect(sel) is rendered under the provider of store s. *)
Connect(s, sel) ==
  /\ s \in 1..Len(stores)
  /\ last' = [op |-> "connect", store |-> s, selector |-> sel,
              result |-> connect(variant, sel, useContext(s))]
  /\ UNCHANGED <<variant, env, effectsToStorageEntityMap, registries, reducerFn,
                 stores, calls, hist, built, heap>>

NextView ==
  \/ \E m \in ViewMaps : Build(m)
  \/ \E r \in 1..Len(registries), l \in Loggings : CreateStore(r, l)
  \/ \E s \in 1..Len(stores), a \in ViewActions : Dispatch(s, a)
  \/ \E s \in 1..Len(stores) : Rerender(s)
  \/ \E s \in 1..Len(stores), sel \in Selectors : Connect(s, sel)

SpecView == Init /\ [][NextView]_vars

(* C14: connect accepts a function or null and rejects any other selector; with   *)
(* null the component receives dispatch, no state projection, and no selector is  *)
(* called; with a function it receives the selector's result and dispatch, and a  *)
(* result that is not a plain mapping fails with ShapeError.                      *)
C14_ConnectContract ==
  last.op = "connect" =>
    LET sel == last.selector
        ctx == useContext(last.store)
        res == last.result
    IN IF sel.cls = "Function"
       THEN /\ res.called
            /\ IF CallSelector(sel, ctx.state).cls = "Object"
               THEN /\ res.err = NoError
                    /\ res.slicedState = CallSelector(sel, ctx.state).props
                    /\ res.dispatch = ctx.dispatch
               ELSE res.err = "ShapeError"
       ELSE IF sel.cls = "Null"
       THEN /\ res.err = NoError
            /\ ~res.called
            /\ res.slicedState = NoProps
            /\ res.dispatch = ctx.dispatch
       ELSE /\ res.err # NoError
            /\ ~res.called

(* The statement of C14 for src/unnamed/part_000 alone. *)
ConnectContract_part_000 == variant = "part_000" => C14_ConnectContract

---------------------------------------------------------------------------
(* The kinds refused for a state and for a payload. *)
RefusedKinds == {"Function", "Date", "RegExp", "Symbol"}

(* The outcome the contract fixes for a dispatched action: the error of the first *)
(* check that fails, in its order, or none when the action is resolved.           *)
FixedDispatchOutcome(a) ==
  IF a.cls # "Object" THEN "ShapeError"
  ELSE IF a.type \in FalsyValues \/ a.payload \in FalsyValues THEN "MissingFieldError"
  ELSE IF a.type.cls # "String" THEN "InvalidTypeError"
  ELSE IF a.payload.cls \in RefusedKinds THEN "InvalidPayloadTypeError"
  ELSE NoError

(* C15: every dispatch ends with the outcome fixed for its action: ShapeError    *)
(* for an action that is no plain mapping, else MissingFieldError for a falsy    *)
(* type or payload, else InvalidTypeError for a type that is no string, else     *)
(* InvalidPayloadTypeError for a payload of a refused kind, else no error.       *)
C15_DispatchValidationOrder ==
  last.op = "dispatch" => last.err = FixedDispatchOutcome(last.action)

(* The statement of C15 for the dispatches whose action the logging wrapper can read. *)
DispatchValidationOrder_reducer ==
  (/\ last.op = "dispatch"
   /\ ~WrapperThrows(variant, env, stores[last.store].logging, last.action))
    => last.err = FixedDispatchOutcome(last.action)

(* The outcome the contract fixes for one entity, and for an entity map: the   *)
(* error of the first check that fails, entities taken in enumeration order.   *)
FixedEntityOutcome(e) ==
  IF e.cls # "Object" THEN "ShapeError"
  ELSE IF e.effects.cls = "Undefined" \/ e.initialState = Undefined THEN "MissingFieldError"
  ELSE IF e.effects.cls # "Object" THEN "ShapeError"
  ELSE IF e.initialState.cls \in RefusedKinds THEN "InvalidStateTypeError"
  ELSE NoError

FailingEntities(m) ==
  {i \in 1..Len(m.ents) : FixedEntityOutcome(m.ents[i].ent) # NoError}

FixedBuildOutcome(m) ==
  IF m.cls # "Object" THEN "ShapeError"
  ELSE IF FailingEntities(m) = {} THEN NoError
  ELSE FixedEntityOutcome(
         m.ents[CHOOSE i \in FailingEntities(m) : \A j \in FailingEntities(m) : i <= j].ent)

(* C16: every build ends with the outcome fixed for its entity map: ShapeError   *)
(* for a map that is no plain mapping; else, for the first entity that fails,    *)
(* ShapeError (no plain mapping), MissingFieldError (effects or initialState     *)
(* absent), ShapeError (effects no plain mapping) or InvalidStateTypeError       *)
(* (initialState of a refused kind), in this order; else every entity is         *)
(* registered.                                                                   *)
C16_BuildValidationOrder ==
  last.op = "build" =>
    /\ last.err = FixedBuildOutcome(last.arg)
    /\ last.err = NoError =>
         /\ Keys(registries[last.reg].globalInitialState) = EntityNames(last.arg)
         /\ Keys(registries[last.reg].globalEffects) = EffectNames(last.arg)

(* The statement of C16 for src/unnamed/part_000 and entities whose effects are *)
(* absent or truthy.                                                            *)
BuildValidationOrder_part_000 ==
  (/\ variant = "part_000"
   /\ last.op = "build"
   /\ \A i \in 1..Len(last.arg.ents) : last.arg.ents[i].ent.effects # ZeroEffects)
    => C16_BuildValidationOrder

---------------------------------------------------------------------------
(* The entity map the registry of store s was built from. *)
StoreMap(s) == built[stores[s].reg]

(* Entity k of entity map m declares effect name t with value h. *)
DeclaredBy(m, k, t, h) ==
  \E i \in 1..Len(m.ents) :
    /\ m.ents[i].name = k
    /\ t \in Keys(m.ents[i].ent.effects.map)
    /\ m.ents[i].ent.effects.map[t] = h

(* C17: whenever a dispatch runs a handler, the slice it is given and the slice   *)
(* its result is written to are the slice of the entity that declared the handler *)
(* in the entity map of the store, and no other slice changes; after any builds.  *)
C17_HandlerOnDeclaringSlice ==
  (last.op = "dispatch" /\ last.fn # "none")
    => /\ DeclaredBy(StoreMap(last.store), last.key, LastType, last.fn)
       /\ LastState = [k \in Keys(last.prev) |->
            IF k = last.key THEN Apply(last.fn, last.prev[k], LastPayload)
            ELSE last.prev[k]]

(* The statement of C17 for a process that has built one entity map. *)
HandlerOnDeclaringSlice_oneBuild == calls.build = 1 => C17_HandlerOnDeclaringSlice

(* The effect names the Map gives to entity k. *)
Owned(k) == {t \in Keys(effectsToStorageEntityMap) : effectsToStorageEntityMap[t] = k}

(* C18 as stated: after a successful build the Map gives every effect name that  *)
(* an entity of the map declares to that entity, and the names owned by distinct *)
(* entities are disjoint.                                                        *)
C18_EveryDeclarerOwns ==
  (last.op = "build" /\ last.err = NoError)
    => /\ \A i \in 1..Len(last.arg.ents) :
            \A t \in Keys(last.arg.ents[i].ent.effects.map) :
              GetOwner(effectsToStorageEntityMap, t) = last.arg.ents[i].name
       /\ \A k1, k2 \in EntityNames(last.arg) :
            k1 # k2 => Owned(k1) \cap Owned(k2) = {}

(* C18, amended: after a successful build the Map gives every effect name that   *)
(* an entity of the map declares to the entity enumerated last among those that  *)
(* declare it (the declaring entity itself when it is the only one), and the     *)
(* names owned by distinct entities are disjoint.                                *)
C18_LastDeclarerOwns ==
  (last.op = "build" /\ last.err = NoError)
    => /\ \A t \in EffectNames(last.arg) :
            GetOwner(effectsToStorageEntityMap, t)
              = last.arg.ents[LastDeclaring(last.arg, t)].name
       /\ \A k1, k2 \in EntityNames(last.arg) :
            k1 # k2 => Owned(k1) \cap Owned(k2) = {}

(* C18's case: a build of two entities that both declare T has succeeded, and *)
(* the one enumerated first owns nothing.                                      *)
C18_Witness ==
  /\ last.op = "build"
  /\ last.err = NoError
  /\ last.arg = MapCollide
  /\ Owned("b") = {"T"}
  /\ Owned("a") = {}

(* The registries that some store was created from. *)
RegistriesInUse == {stores[s].reg : s \in 1..Len(stores)}

(* C19: no step changes a registry that build has returned: its globalEffects and *)
(* globalInitialState stay as returned, and for a registry that stores were       *)
(* created from, so does the owner of every effect name it holds.                 *)
C19_RegistryImmutable ==
  [][/\ \A r \in 1..Len(registries) : registries'[r] = registries[r]
     /\ \A r \in RegistriesInUse :
          \A t \in Keys(registries[r].globalEffects) :
            GetOwner(effectsToStorageEntityMap', t) = GetOwner(effectsToStorageEntityMap, t)]_vars

(* The first half of C19: what build returned is never changed. *)
ReturnedRegistryUnchanged ==
  [][\A r \in 1..Len(registries) : registries'[r] = registries[r]]_vars

(* C20: a dispatch on a store runs the effect that the globalEffects of the  *)
(* store's own registry holds for the action type (none when it holds none   *)
(* or no function), whichever stores were created before it.                 *)
C20_HandlerFromOwnRegistry ==
  DispatchedValid =>
    LET h == GetEffect(registries[stores[last.store].reg].globalEffects, LastType) IN
    last.fn = IF h # "undefined" /\ Callable(h) THEN h ELSE "none"

(* The statement of C20 for the stores created from the registry of the first store. *)
HandlerFromOwnRegistry_firstRegistry ==
  (DispatchedValid /\ stores[last.store].reg = stores[1].reg) => C20_HandlerFromOwnRegistry

---------------------------------------------------------------------------
(* C21: no step modifies a state object that exists: whoever holds the object   *)
(* that was a store's state before a dispatch, or a registry's                  *)
(* globalInitialState, finds the same keys and slices in it afterwards; and a   *)
(* commit that changes a store's state makes the state a new object.            *)
C21_SnapshotsNeverModified ==
  [][/\ \A i \in 1..Len(heap.objs) : heap'.objs[i] = heap.objs[i]
     /\ \A r \in 1..Len(registries) :
          heap'.objs[heap'.init[r]] = registries[r].globalInitialState
     /\ \A s \in 1..Len(stores) :
          /\ heap'.objs[heap'.ref[s]] = stores'[s].state
          /\ stores'[s].state # stores[s].state => heap'.ref[s] \notin 1..Len(heap.objs)]_vars

(* C21's case: a store has committed two changes; the object that was its first *)
(* state is its registry's globalInitialState and still holds the initial       *)
(* slices, and the object of the state in between still holds that state.       *)
C21_Witness ==
  /\ last.op = "dispatch"
  /\ last.prev # InitialStateOf(last.store)
  /\ LastState # last.prev
  /\ \E i \in 1..Len(heap.objs) :
       /\ i # heap.ref[last.store]
       /\ i # heap.init[stores[last.store].reg]
       /\ heap.objs[i] = last.prev
  /\ heap.objs[heap.init[stores[last.store].reg]] = InitialStateOf(last.store)

---------------------------------------------------------------------------
(* Repeated calls: the same action on one store, the same entity map twice. *)
RepeatMaps == {MapAB, MapThenBad(NumberEntity), MapThenBad(Entity(ADate, Effects(Eff1("T", "KEEP"))))}

RepeatActions ==
  { Action(Str("T"), Num(1)), Action(Str("X"), Num(1)), Action(Str("N"), Num(1)),
    Action(Str("constructor"), Num(1)), Action(Str("T"), Num(0)),
    Action(Num(7), Num(1)), NonObjectAction("Undefined") }

NextRepeat ==
  \/ \E m \in RepeatMaps : Build(m)
  \/ \E r \in 1..Len(registries), l \in Loggings : CreateStore(r, l)
  \/ \E s \in 1..Len(stores), a \in RepeatActions : DispatchNoted(s, a)

SpecRepeat == Init /\ [][NextRepeat]_vars

(* A well-formed action whose type has no registered effect, or a registered *)
(* value that is no function.                                                 *)
Unresolvable(a) ==
  /\ FixedDispatchOutcome(a) = NoError
  /\ \/ a.type.str \notin Keys(ResolverEffects)
     \/ ~Callable(ResolverEffects[a.type.str])

(* On every store, every dispatch of an invalid action failed, with the error of *)
(* every other dispatch of the same action; every dispatch of an unresolvable    *)
(* action raised nothing and left the state as it was.                           *)
DispatchOutcomesRepeat ==
  \A s \in 1..Len(stores) : \A i \in 1..Len(hist[s]) :
    /\ FixedDispatchOutcome(hist[s][i].action) # NoError
         => /\ hist[s][i].err # NoError
            /\ \A j \in 1..Len(hist[s]) :
                 hist[s][j].action = hist[s][i].action => hist[s][j].err = hist[s][i].err
    /\ Unresolvable(hist[s][i].action)
         => /\ hist[s][i].err = NoError
            /\ hist[s][i].same

(* C22: validation outcomes repeat.  After every step the dispatches noted on   *)
(* each store satisfy DispatchOutcomesRepeat, and a build of the malformed      *)
(* entity map that the call before it was given fails with the same error.      *)
C22_ValidationRepeats ==
  [][/\ DispatchOutcomesRepeat'
     /\ (/\ last.op = "build" /\ last.err # NoError
         /\ last'.op = "build" /\ last'.arg = last.arg)
          => last'.err = last.err]_vars

(* The statement of C22 without the action types that name a property every *)
(* object inherits.                                                          *)
ValidationRepeats_ownNames ==
  [][/\ (\A s \in 1..Len(stores) : \A i \in 1..Len(hist[s]) :
           hist[s][i].action # Action(Str("constructor"), Num(1)))'
          => DispatchOutcomesRepeat'
     /\ (/\ last.op = "build" /\ last.err # NoError
         /\ last'.op = "build" /\ last'.arg = last.arg)
          => last'.err = last.err]_vars

(* Repetitions do happen: an invalid action twice on one store, a malformed map twice. *)
RepeatedInvalidDispatch ==
  \E s \in 1..Len(stores) :
    /\ Len(hist[s]) = 2
    /\ hist[s][1].action = NonObjectAction("Undefined")
    /\ hist[s][2] = hist[s][1]

---------------------------------------------------------------------------
(* What the last dispatch ends with on a store without diagnostics (no logging *)
(* wrapper), from the same state and for the same action.                       *)
WithoutDiagnostics ==
  dispatch(variant, "production", FALSE, registries[reducerFn],
           effectsToStorageEntityMap, last.prev, last.action)

(* C23: diagnostics are neutral.  Every dispatch, on a store that logs or not, *)
(* ends with the error and commits the state that the same dispatch ends with  *)
(* and commits on a store without diagnostics.                                  *)
C23_DiagnosticsAreNeutral ==
  last.op = "dispatch"
    => /\ last.err = WithoutDiagnostics.err
       /\ LastState = WithoutDiagnostics.state

(* The statement of C23 for the actions that are objects. *)
DiagnosticsAreNeutral_objectActions ==
  (last.op = "dispatch" /\ last.action.cls = "Object") => C23_DiagnosticsAreNeutral

(* A store that logs has committed a change. *)
LoggedCommit ==
  /\ last.op = "dispatch"
  /\ WrapperLogs(variant, env, stores[last.store].logging)
  /\ LastState # last.prev

---------------------------------------------------------------------------
(* C24: a dispatch calls an effect only when its action has passed all four   *)
(* checks: the action is a plain mapping, type and payload are truthy, type   *)
(* is a string, payload is of no refused kind.  For an action that fails any  *)
(* of them no effect is called.                                               *)
C24_NoEffectBeforeValidation ==
  last.op = "dispatch"
    => /\ last.fn # "none"
            => /\ last.action.cls = "Object"
               /\ last.action.type \notin FalsyValues
               /\ last.action.payload \notin FalsyValues
               /\ last.action.type.cls = "String"
               /\ last.action.payload.cls \notin RefusedKinds
       /\ FixedDispatchOutcome(last.action) # NoError
            => /\ last.fn = "none"
               /\ last.err # NoError

(* C24's case: the action names a registered, callable effect and fails the *)
(* last of the four checks.                                                  *)
C24_Witness ==
  /\ last.op = "dispatch"
  /\ last.action = Action(Str("T"), AFunction)
  /\ "T" \in Keys(ResolverEffects)
  /\ Callable(ResolverEffects["T"])
  /\ last.err = "InvalidPayloadTypeError"
  /\ last.fn = "none"

---------------------------------------------------------------------------
(* Builds of entity maps that declare one effect name twice, and of one that *)
(* does not, with stores and dispatches on what they return.                 *)
CollideMaps == {MapCollide, MapCollideRev, MapAB}

NextCollide ==
  \/ \E m \in CollideMaps : Build(m)
  \/ \E r \in 1..Len(registries), l \in Loggings : CreateStore(r, l)
  \/ \E s \in 1..Len(stores), a \in BuildActions : Dispatch(s, a)

SpecCollide == Init /\ [][NextCollide]_vars

(* C25: when the process has made one build, from the empty Map, and it has    *)
(* returned, handler and owner agree: for every name a of the registry's       *)
(* globalEffects the Map's owner of a is an entity of the map that declares a, *)
(* and globalEffects[a] is the value that entity declared for a; also when     *)
(* two entities declare a.                                                     *)
C25_HandlerAndOwnerAgree ==
  (calls.build = 1 /\ Len(registries) = 1)
    => \A a \in Keys(registries[1].globalEffects) :
         /\ a \in Keys(effectsToStorageEntityMap)
         /\ DeclaredBy(built[1], effectsToStorageEntityMap[a], a,
                       registries[1].globalEffects[a])

(* C25's case: the one build was of two entities that declare T with different *)
(* effects; the Map's owner of T is b and globalEffects holds b's effect.       *)
C25_Witness ==
  /\ calls.build = 1
  /\ built = <<MapCollide>>
  /\ effectsToStorageEntityMap["T"] = "b"
  /\ registries[1].globalEffects["T"] = "KEEP"
  /\ ~DeclaredBy(built[1], "a", "T", "KEEP")

===========================================================================
